---- MODULE Spec2Model ----
(***************************************************************************)
(* State-machine model of the LibreOffice conversion stress-test harness.  *)
(* Spec:       main(), run_stress_test(), the thread pool of               *)
(*             convert_file_to_pdf() workers, kill_soffice_processes() and *)
(*             the MemoryMonitor (src/stress_test_runner.py).              *)
(* SpecRunner: one call of convert_file_to_pdf() or of                     *)
(*             convert_document_to_pdf() (src/conversion_with_fixes.py),   *)
(*             step by step, with a clock and the converter's processes.   *)
(* SpecMon:    the MemoryMonitor and its sampling thread, statement by     *)
(*             statement.                                                  *)
(* SpecEsc:    the Escalation Controller of the specification.             *)
(* SpecLive:   Spec with weak fairness of its next-state relation.         *)
(* SpecProbe:  one memory read, by MemoryMonitor._monitor_loop or by       *)
(*             get_memory_info() (src/test_file_generator.py).             *)
(* SpecOrder:  the submit and as_completed loops of run_stress_test(),     *)
(*             keeping only the order of submission, completion and        *)
(*             collection.                                                 *)
(* SpecPair:   two runs of a two-job batch side by side, to compare what   *)
(*             is recorded for a job when only the other job differs.      *)
(* SpecMonApi: a MemoryMonitor whose start() and stop() are called in any   *)
(*             order, with one sampling thread per start().                *)
(* SpecMonLive: SpecMon with weak fairness of the sampling thread's steps. *)
(***************************************************************************)
EXTENDS Integers, Sequences, FiniteSets, TLC

\* ---- bounds of the model ------------------------------------------------
MaxFiles == 2
MaxRounds == 2
MaxTasks == 2
MaxConcurrent == 2
MaxMem == 1
NumNames == 2
NumUuids == 2
MaxStart == 2
MaxStep == 2
MaxLimit == 3
MaxTimeout == 2
MaxOverhead == 1
MaxClockStart == 1
MaxReadings == 2
MaxTotal == 4
MaxCgroup == 2
MaxLevels == 4
MaxStarts == 2

VARIABLES
    pc,                 \* position of the main thread in main()/run_stress_test()
    test_dir_exists,    \* test_dir.exists()
    test_files,         \* number of files globbed from the test directory
    soffice_found,      \* find_libreoffice_path() finds an executable
    rounds,
    concurrent,
    use_unique_profile,
    verbose,            \* run_stress_test prints a progress line per result
    mem_read_error,     \* "" or the function out of which a failed memory read was raised
    tasks,              \* the task queue built round-major
    submitted,          \* number of tasks handed to executor.submit so far
    jstate,             \* per task: "new", "queued", "running", "done"
    proc,               \* per task: converter process "none", "running", "killed", "ended"
    returncode,         \* per task: {returncode} of the CompletedProcess while the future awaits collection
    scratch,            \* per task: name of the TemporaryDirectory, 0 outside the with block
    profile,            \* per task: <<scratch, uuid>> of the profile directory, <<>> if none
    dirs,               \* names of the scratch directories that exist on disk
    fut,                \* per task: what the future holds
    collected,          \* tasks whose future has been yielded by as_completed
    results,            \* the results list of run_stress_test
    peak_memory_mb,     \* MemoryMonitor.peak_memory_mb
    monitor_running,    \* MemoryMonitor.running
    other_soffice,      \* a soffice process of unrelated work: "running" or "killed"
    summary,            \* report.summary
    exit_code,          \* {} until the process exits, then {code}
    esc_pc,             \* Escalation Controller: "idle", "run", "decide", "stopped"
    start,
    step,
    max,
    current,            \* concurrency of the level being run
    levels,             \* the EscalationLevels recorded so far
    cap_reached,        \* the Memory Monitor's latched cap signal
    terminal,           \* terminal reason: "", "OOM", "CAP_REACHED", "EXHAUSTED"
    impl,               \* one call of the Process Runner: which function is called
    rpc,                \* position inside that call
    timeout,            \* its timeout argument, in clock ticks
    now,                \* time.time(), in clock ticks
    start_time,         \* start_time of convert_file_to_pdf
    endtime,            \* the deadline subprocess.run computes when it starts the child
    temp_dir,           \* the TemporaryDirectory of the call exists on disk
    profile_dir,        \* profile_dir was created inside temp_dir
    child,              \* the process subprocess.run started: "none", "running", "exited", "killed"
    orphan,             \* soffice.bin started by it: "none", "running", "exited", "killed"
    pdf_file,           \* what PDF lies in temp_dir: one of Artifacts, or the caller's input
    pending,            \* what is leaving the with block: "", "return" or an exception
    outcome,            \* "" until the call is over, then "returned" or the exception raised
    conv_result,        \* the ConversionResult built by convert_file_to_pdf
    mon_pc,             \* the thread using a MemoryMonitor: its position in start() / stop()
    loop_pc,            \* the sampling thread: "none" or its position in _monitor_loop
    used_mb,            \* used_mb of the sample being taken
    readings,           \* MemoryMonitor.readings (the used_mb of every sample)
    observed,           \* the peak last read by the thread using the monitor
    stop_returned,      \* {} until stop() has returned, then {the value returned}
    vm,                 \* host memory as the kernel reports it: total, available, used
    cgroup,             \* memory limit (0: none) and usage of the container's cgroup
    probe,              \* "" until a memory read was made, then the function that made it
    snapshot,           \* the reading that function produced
    order_pc,           \* the submit and collect loops alone: position of the main thread
    job,                \* per task of that run: "new", "queued", "running", "done"
    completion,         \* the tasks of that run in the order their futures finished
    early,              \* the futures as_completed found finished when it was entered
    yielded,            \* the tasks in the order as_completed yielded their futures
    behaviour,          \* two runs of a batch of two jobs: what each job's converter does by itself
    pair_turn,          \* which of the two runs is executing (0: none)
    pair_proc,          \* per run and job: converter process "none", "running", "killed", "ended"
    pair_status,        \* per run and job: "" or the status of the job's result
    threads,            \* a MemoryMonitor used freely: per sampling thread started, its position and its sample
    lock                \* MemoryMonitor._lock: 0 when free, else the thread holding it

vars == <<pc, test_dir_exists, test_files, soffice_found, rounds, concurrent,
          use_unique_profile, verbose, mem_read_error, tasks, submitted, jstate, proc, returncode,
          scratch, profile, dirs, fut, collected, results, peak_memory_mb,
          monitor_running, other_soffice, summary, exit_code,
          esc_pc, start, step, max, current, levels, cap_reached, terminal,
          impl, rpc, timeout, now, start_time, endtime, temp_dir, profile_dir,
          child, orphan, pdf_file, pending, outcome, conv_result,
          mon_pc, loop_pc, used_mb, readings, observed, stop_returned,
          vm, cgroup, probe, snapshot,
          order_pc, job, completion, early, yielded,
          behaviour, pair_turn, pair_proc, pair_status,
          threads, lock>>

escVars == <<esc_pc, start, step, max, current, levels, cap_reached, terminal>>

runnerVars == <<impl, rpc, timeout, now, start_time, endtime, temp_dir, profile_dir,
                child, orphan, pdf_file, pending, outcome, conv_result>>

\* the variables of the single-component specifications
monVars == <<mon_pc, loop_pc, used_mb, readings, observed, stop_returned>>

probeVars == <<vm, cgroup, probe, snapshot>>

orderVars == <<order_pc, job, completion, early, yielded>>

pairVars == <<behaviour, pair_turn, pair_proc, pair_status>>

apiVars == <<threads, lock>>

unitVars == <<runnerVars, monVars, probeVars, orderVars, pairVars, apiVars>>

cfgVars == <<test_dir_exists, test_files, soffice_found, rounds, concurrent,
             use_unique_profile, verbose>>

TaskIds == 1..MaxTasks
Names == 1..NumNames
Uuids == 1..NumUuids
MemValues == 0..MaxMem

\* what the external converter can do before subprocess.run returns
ExitCodes == {0, 1, 137}
Artifacts == {"none", "expected", "expected_empty", "other", "other_empty"}

NoFuture == [kind |-> "none", status |-> "", output_size_kb |-> 0]

NumTasks == Len(tasks)
Ids == 1..NumTasks

\* ---- helpers --------------------------------------------------------------

RECURSIVE BuildTasksFrom(_, _, _, _)
BuildTasksFrom(r, f, nr, nf) ==
    IF r >= nr THEN <<>>
    ELSE IF f > nf THEN BuildTasksFrom(r + 1, 1, nr, nf)
    ELSE <<[round_num |-> r, file_path |-> f]>> \o BuildTasksFrom(r, f + 1, nr, nf)

\* tasks = [(round_num, file_path) for round_num in range(rounds) for file_path in test_files]
BuildTasks(nr, nf) == BuildTasksFrom(0, 1, nr, nf)

\* ConversionResult as built by convert_file_to_pdf after subprocess.run returned:
\* only the presence of a PDF decides, its size is copied as found.
ClassifyOutput(artifact) ==
    IF artifact = "expected" THEN [kind |-> "result", status |-> "success", output_size_kb |-> 1]
    ELSE IF artifact = "expected_empty" THEN [kind |-> "result", status |-> "success", output_size_kb |-> 0]
    ELSE IF artifact = "other" THEN [kind |-> "result", status |-> "success", output_size_kb |-> 1]
    ELSE IF artifact = "other_empty" THEN [kind |-> "result", status |-> "success", output_size_kb |-> 0]
    ELSE [kind |-> "result", status |-> "failed", output_size_kb |-> 0]

\* except subprocess.TimeoutExpired: ConversionResult(status="timeout", output_size_kb=0)
TimeoutResult == [kind |-> "result", status |-> "timeout", output_size_kb |-> 0]

\* except Exception as e: ConversionResult(status="failed", output_size_kb=0)
ExceptionResult == [kind |-> "result", status |-> "failed", output_size_kb |-> 0]

\* the future holds an exception raised outside the try block of the worker
RaisedFuture == [kind |-> "exception", status |-> "", output_size_kb |-> 0]

Running == {j \in Ids : jstate[j] = "running"}

\* one thread per submitted task, whatever `concurrent` says
WorkerAvailable_Unbounded == TRUE

\* ThreadPoolExecutor(max_workers=concurrent): a thread is free to take a work item
WorkerAvailable == Cardinality(Running) < concurrent

\* the executor's work queue is FIFO: the next work item is the oldest queued one
NextQueued(j) == jstate[j] = "queued" /\ \A k \in Ids : jstate[k] = "queued" => j <= k

\* a scratch name picked without checking that it is unused
FreshNames_NoExistCheck == Names

\* tempfile.TemporaryDirectory -> mkdtemp: the names mkdir can still create
FreshNames == Names \ dirs

\* kill_soffice_processes(): every process named soffice / soffice.bin is killed
KillTargets(j) == {k \in Ids : proc[k] = "running"}

\* lines 505-512: the failed result recorded for a future that raised
AppendFailed(rs, f) ==
    Append(rs, [filename |-> f, status |-> "failed", output_size_kb |-> 0,
                memory_peak_mb |-> 0])

\* line 485: the as_completed loop ends when every future has been yielded
AllYielded(c) == c = Ids

CountStatus(s) == Cardinality({i \in 1..Len(results) : results[i].status = s})

\* an empty result list counts as a full success
SuccessRate_EmptyIsFull(successful, total) ==
    IF total = 0 THEN 10000 ELSE (2 * successful * 10000 + total) \div (2 * total)

\* round(successful / len(results) * 100, 2) if results else 0, in hundredths of a percent
SuccessRate(successful, total) ==
    IF total = 0 THEN 0 ELSE (2 * successful * 10000 + total) \div (2 * total)

NoSummary ==
    [total_conversions |-> 0, successful |-> 0, failed |-> 0, timeouts |-> 0,
     oom_killed |-> 0, success_rate |-> 0]

Summarize ==
    [total_conversions |-> Len(results),
     successful |-> CountStatus("success"),
     failed |-> CountStatus("failed"),
     timeouts |-> CountStatus("timeout"),
     oom_killed |-> CountStatus("oom"),
     success_rate |-> SuccessRate(CountStatus("success"), Len(results))]

\* ---- initial state ----------------------------------------------------------

NoSnapshot == [total |-> 0, used |-> 0, available |-> 0, percent |-> 0]

InitProbeIdle ==
    /\ vm = [total |-> 0, available |-> 0, used |-> 0]
    /\ cgroup = [limit |-> 0, usage |-> 0]
    /\ probe = "off"
    /\ snapshot = NoSnapshot

InitRunIdle ==
    /\ pc = "start"
    /\ tasks = <<>>
    /\ submitted = 0
    /\ jstate = [j \in TaskIds |-> "new"]
    /\ proc = [j \in TaskIds |-> "none"]
    /\ returncode = [j \in TaskIds |-> {}]
    /\ scratch = [j \in TaskIds |-> 0]
    /\ profile = [j \in TaskIds |-> <<>>]
    /\ dirs = {}
    /\ fut = [j \in TaskIds |-> NoFuture]
    /\ collected = {}
    /\ results = <<>>
    /\ peak_memory_mb = 0
    /\ monitor_running = FALSE
    /\ other_soffice = "running"
    /\ summary = NoSummary
    /\ exit_code = {}
    /\ mem_read_error = ""

InitOrderIdle ==
    /\ order_pc = "off"
    /\ job = <<>>
    /\ completion = <<>>
    /\ early = {}
    /\ yielded = <<>>

PairRuns == {1, 2}
PairJobs == {1, 2}

InitApiIdle ==
    /\ threads = <<>>
    /\ lock = 0

InitPairIdle ==
    /\ behaviour = <<>>
    /\ pair_turn = 0
    /\ pair_proc = [r \in PairRuns |-> [j \in PairJobs |-> "none"]]
    /\ pair_status = [r \in PairRuns |-> [j \in PairJobs |-> ""]]

InitCommon ==
    /\ InitRunIdle
    /\ InitProbeIdle
    /\ InitOrderIdle
    /\ InitPairIdle
    /\ InitApiIdle

InitEscIdle ==
    /\ esc_pc = "idle"
    /\ start = 0
    /\ step = 0
    /\ max = 0
    /\ current = 0
    /\ levels = <<>>
    /\ cap_reached = FALSE
    /\ terminal = ""

NoResult == [status |-> "", output_size_kb |-> 0, duration_seconds |-> 0]

InitRunnerIdle ==
    /\ impl = ""
    /\ rpc = "off"
    /\ timeout = 0
    /\ now = 0
    /\ start_time = 0
    /\ endtime = 0
    /\ temp_dir = FALSE
    /\ profile_dir = FALSE
    /\ child = "none"
    /\ orphan = "none"
    /\ pdf_file = "none"
    /\ pending = ""
    /\ outcome = ""
    /\ conv_result = NoResult

InitMonIdle ==
    /\ mon_pc = "off"
    /\ loop_pc = "none"
    /\ used_mb = 0
    /\ readings = <<>>
    /\ observed = 0
    /\ stop_returned = {}

Init ==
    /\ InitCommon
    /\ InitEscIdle
    /\ InitRunnerIdle
    /\ InitMonIdle
    /\ rounds \in 0..MaxRounds
    /\ concurrent \in 0..MaxConcurrent
    /\ use_unique_profile \in BOOLEAN
    /\ verbose \in BOOLEAN
    /\ \/ /\ test_dir_exists = TRUE /\ test_files \in 1..MaxFiles /\ soffice_found = TRUE
          /\ test_files * rounds <= MaxTasks
       \/ test_dir_exists = FALSE /\ test_files = 0 /\ soffice_found = TRUE
       \/ test_dir_exists = TRUE /\ test_files = 0 /\ soffice_found = TRUE
       \/ test_dir_exists = TRUE /\ test_files = 1 /\ soffice_found = FALSE

\* ---- main thread: run_stress_test ---------------------------------------------

\* the executable is taken as given, without looking for it
ConfigError_ExecutableUnchecked(dir_exists, n_files, found) ==
    ~dir_exists \/ n_files = 0

\* lines 415-416, 428-429, 432 (find_libreoffice_path, 113-122): what makes
\* run_stress_test raise ValueError or RuntimeError
ConfigError(dir_exists, n_files, found) ==
    ~dir_exists \/ n_files = 0 \/ ~found

\* lines 413-432: the configuration checks, each raising before any work begins
CheckConfig ==
    /\ pc = "start"
    /\ pc' = IF ConfigError(test_dir_exists, test_files, soffice_found)
             THEN "raised" ELSE "configured"
    /\ UNCHANGED <<unitVars, escVars, cfgVars, mem_read_error, tasks, submitted, jstate, proc, returncode, scratch,
                   profile, dirs, fut, collected, results, peak_memory_mb,
                   monitor_running, other_soffice, summary, exit_code>>

\* lines 434-471: get_system_info() reads the memory with psutil.virtual_memory()
\* outside any try block; then monitor.start(), results = [], the task queue, the
\* executor; ThreadPoolExecutor raises ValueError when max_workers <= 0, and a run
\* without tasks has nothing to submit or to collect
StartMonitorAndBuildTasks ==
    /\ pc = "configured"
    /\ \/ /\ mem_read_error' = "get_system_info"
          /\ pc' = "raised"
          /\ UNCHANGED <<monitor_running, peak_memory_mb, results, tasks>>
       \/ /\ mem_read_error' = mem_read_error
          /\ monitor_running' = TRUE
          /\ peak_memory_mb' = 0
          /\ results' = <<>>
          /\ tasks' = BuildTasks(rounds, test_files)
          /\ pc' = IF concurrent <= 0 THEN "raised"
                   ELSE IF tasks' = <<>> THEN "stop_monitor"
                   ELSE "submit"
    /\ UNCHANGED <<unitVars, escVars, cfgVars, submitted, jstate, proc, returncode, scratch,
                   profile, dirs, fut, collected, other_soffice, summary, exit_code>>

\* lines 474-483: executor.submit of the next task
Submit ==
    /\ pc = "submit"
    /\ submitted < NumTasks
    /\ submitted' = submitted + 1
    /\ jstate' = [jstate EXCEPT ![submitted + 1] = "queued"]
    /\ pc' = IF submitted + 1 = NumTasks THEN "collect" ELSE "submit"
    /\ UNCHANGED <<unitVars, escVars, cfgVars, mem_read_error, tasks, proc, returncode, scratch, profile, dirs,
                   fut, collected, results, peak_memory_mb, monitor_running,
                   other_soffice, summary, exit_code>>

\* ---- worker threads: convert_file_to_pdf ----------------------------------------

\* lines 266-315: a worker takes the task, creates the scratch (and profile)
\* directory and launches the converter
StartJob(j) ==
    /\ j \in Ids
    /\ NextQueued(j)
    /\ WorkerAvailable
    /\ \E d \in FreshNames, u \in Uuids :
          /\ dirs' = dirs \cup {d}
          /\ scratch' = [scratch EXCEPT ![j] = d]
          /\ profile' = [profile EXCEPT ![j] = IF use_unique_profile THEN <<d, u>> ELSE <<>>]
    /\ jstate' = [jstate EXCEPT ![j] = "running"]
    /\ proc' = [proc EXCEPT ![j] = "running"]
    /\ UNCHANGED <<unitVars, escVars, cfgVars, mem_read_error, pc, tasks, submitted, returncode, fut, collected,
                   results, peak_memory_mb, monitor_running, other_soffice, summary,
                   exit_code>>

\* lines 266, 275, 296: stat, copy or mkdir raises outside the try block; the
\* with block removes the scratch directory and the future holds the exception
StartJobRaises(j) ==
    /\ j \in Ids
    /\ NextQueued(j)
    /\ WorkerAvailable
    /\ jstate' = [jstate EXCEPT ![j] = "done"]
    /\ fut' = [fut EXCEPT ![j] = RaisedFuture]
    /\ UNCHANGED <<unitVars, escVars, cfgVars, mem_read_error, pc, tasks, submitted, proc, returncode, scratch,
                   profile, dirs, collected, results, peak_memory_mb, monitor_running,
                   other_soffice, summary, exit_code>>

\* lines 309, 364-373: subprocess.run raises something other than TimeoutExpired
\* (the executable cannot be launched); no process ever ran
LaunchFails(j) ==
    /\ j \in Ids
    /\ NextQueued(j)
    /\ WorkerAvailable
    /\ jstate' = [jstate EXCEPT ![j] = "done"]
    /\ fut' = [fut EXCEPT ![j] = ExceptionResult]
    /\ UNCHANGED <<unitVars, escVars, cfgVars, mem_read_error, pc, tasks, submitted, proc, returncode, scratch,
                   profile, dirs, collected, results, peak_memory_mb, monitor_running,
                   other_soffice, summary, exit_code>>

\* lines 309-349: subprocess.run returns (the converter exited by itself with one
\* of ExitCodes, or was killed and reports -9); the result is classified and the
\* scratch directory removed
FinishJob(j) ==
    /\ j \in Ids
    /\ jstate[j] = "running"
    /\ proc[j] \in {"running", "killed"}
    /\ \E rc \in ExitCodes, a \in Artifacts :
          /\ returncode' = [returncode EXCEPT ![j] = IF proc[j] = "killed" THEN {-9} ELSE {rc}]
          /\ fut' = [fut EXCEPT ![j] = ClassifyOutput(a)]
    /\ proc' = [proc EXCEPT ![j] = "ended"]
    /\ jstate' = [jstate EXCEPT ![j] = "done"]
    /\ dirs' = dirs \ {scratch[j]}
    /\ scratch' = [scratch EXCEPT ![j] = 0]
    /\ profile' = [profile EXCEPT ![j] = <<>>]
    /\ UNCHANGED <<unitVars, escVars, cfgVars, mem_read_error, pc, tasks, submitted, collected, results,
                   peak_memory_mb, monitor_running, other_soffice, summary, exit_code>>

\* lines 351-362: the timeout expires while the converter runs; subprocess.run
\* kills its child, then kill_soffice_processes() runs
TimeoutJob(j) ==
    /\ j \in Ids
    /\ jstate[j] = "running"
    /\ proc[j] = "running"
    /\ proc' = [k \in TaskIds |->
                  IF k = j THEN "ended"
                  ELSE IF k \in KillTargets(j) THEN "killed" ELSE proc[k]]
    /\ \E denied \in BOOLEAN :
          other_soffice' = IF denied THEN other_soffice ELSE "killed"
    /\ fut' = [fut EXCEPT ![j] = TimeoutResult]
    /\ jstate' = [jstate EXCEPT ![j] = "done"]
    /\ dirs' = dirs \ {scratch[j]}
    /\ scratch' = [scratch EXCEPT ![j] = 0]
    /\ profile' = [profile EXCEPT ![j] = <<>>]
    /\ UNCHANGED <<unitVars, escVars, cfgVars, mem_read_error, pc, tasks, submitted, returncode, collected, results,
                   peak_memory_mb, monitor_running, summary, exit_code>>

\* ---- main thread: collecting, summary, exit ------------------------------------

\* lines 485-512: as_completed yields a finished future holding a result, which is
\* appended; in verbose mode monitor.get_current() is then called inside the same
\* try block, and when its memory read raises the except branch of lines 502-512
\* appends a failed result for the same task (or raises itself at file_path.stat())
Collect(j) ==
    /\ pc = "collect"
    /\ j \in Ids \ collected
    /\ jstate[j] = "done"
    /\ fut[j].kind = "result"
    /\ collected' = collected \cup {j}
    /\ returncode' = [returncode EXCEPT ![j] = {}]
    /\ LET appended == Append(results,
                              [filename |-> tasks[j].file_path,
                               status |-> fut[j].status,
                               output_size_kb |-> fut[j].output_size_kb,
                               memory_peak_mb |-> peak_memory_mb])
           next_pc == IF AllYielded(collected') THEN "stop_monitor" ELSE "collect"
       IN  \/ /\ results' = appended
              /\ pc' = next_pc
              /\ mem_read_error' = mem_read_error
           \/ /\ verbose
              /\ mem_read_error' = "get_current"
              /\ \/ /\ results' = AppendFailed(appended, tasks[j].file_path)
                    /\ pc' = next_pc
                 \/ /\ results' = appended
                    /\ pc' = "unwind"
    /\ UNCHANGED <<unitVars, escVars, cfgVars, tasks, submitted, jstate, proc, scratch,
                   profile, dirs, fut, peak_memory_mb, monitor_running, other_soffice,
                   summary, exit_code>>

\* lines 502-512: future.result() re-raises the worker's exception; a failed
\* result is appended, unless file_path.stat() raises in the handler itself
CollectRaised(j) ==
    /\ pc = "collect"
    /\ j \in Ids \ collected
    /\ jstate[j] = "done"
    /\ fut[j].kind = "exception"
    /\ collected' = collected \cup {j}
    /\ \/ /\ results' = AppendFailed(results, tasks[j].file_path)
          /\ pc' = IF AllYielded(collected') THEN "stop_monitor" ELSE "collect"
       \/ /\ results' = results
          /\ pc' = "unwind"
    /\ UNCHANGED <<unitVars, escVars, cfgVars, mem_read_error, tasks, submitted, jstate, proc, returncode, scratch,
                   profile, dirs, fut, peak_memory_mb, monitor_running, other_soffice,
                   summary, exit_code>>

\* line 471: leaving the with block on an exception waits for every work item
\* (executor.shutdown(wait=True)) before the exception leaves run_stress_test
Unwind ==
    /\ pc = "unwind"
    /\ \A j \in Ids : jstate[j] = "done"
    /\ pc' = "raised"
    /\ UNCHANGED <<unitVars, escVars, cfgVars, mem_read_error, tasks, submitted, jstate, proc, returncode, scratch,
                   profile, dirs, fut, collected, results, peak_memory_mb,
                   monitor_running, other_soffice, summary, exit_code>>

\* lines 514-515: monitor.stop()
StopMonitor ==
    /\ pc = "stop_monitor"
    /\ monitor_running' = FALSE
    /\ pc' = "summarize"
    /\ UNCHANGED <<unitVars, escVars, cfgVars, mem_read_error, tasks, submitted, jstate, proc, returncode, scratch,
                   profile, dirs, fut, collected, results, peak_memory_mb,
                   other_soffice, summary, exit_code>>

\* lines 523-583: the summary is computed and the report returned
ComputeSummary ==
    /\ pc = "summarize"
    /\ summary' = Summarize
    /\ pc' = "returned"
    /\ UNCHANGED <<unitVars, escVars, cfgVars, mem_read_error, tasks, submitted, jstate, proc, returncode, scratch,
                   profile, dirs, fut, collected, results, peak_memory_mb,
                   monitor_running, other_soffice, exit_code>>

\* sys.exit(1) if report.summary["failed"] > 0 or report.summary["oom_killed"] > 0
ExitCodeOf(s) == IF s.failed > 0 \/ s.oom_killed > 0 THEN 1 ELSE 0

\* lines 652-672: main() after run_stress_test returned or raised
MainExit ==
    /\ pc \in {"returned", "raised"}
    /\ exit_code' = IF pc = "raised" THEN {1} ELSE {ExitCodeOf(summary)}
    /\ pc' = "exited"
    /\ UNCHANGED <<unitVars, escVars, cfgVars, mem_read_error, tasks, submitted, jstate, proc, returncode, scratch,
                   profile, dirs, fut, collected, results, peak_memory_mb,
                   monitor_running, other_soffice, summary>>

\* ---- MemoryMonitor._monitor_loop ---------------------------------------------------

\* the peak is overwritten by every sample
NewPeak_LastSample(peak, used) == used

\* lines 184-186: if used_mb > self.peak_memory_mb: self.peak_memory_mb = used_mb
NewPeak(peak, used) == IF used > peak THEN used ELSE peak

\* lines 178-193: one iteration of the sampling loop
MonitorSample ==
    /\ monitor_running
    /\ \E used \in MemValues : peak_memory_mb' = NewPeak(peak_memory_mb, used)
    /\ UNCHANGED <<unitVars, escVars, cfgVars, mem_read_error, pc, tasks, submitted, jstate, proc, returncode,
                   scratch, profile, dirs, fut, collected, results, monitor_running,
                   other_soffice, summary, exit_code>>

\* ---- Escalation Controller (section 4.5 of the specification) ---------------------

runVars == <<pc, mem_read_error, tasks, submitted, jstate, proc, returncode, scratch, profile, dirs,
             fut, collected, results, peak_memory_mb, monitor_running, other_soffice,
             summary, exit_code>>

InitEsc ==
    /\ InitCommon
    /\ InitRunnerIdle
    /\ InitMonIdle
    /\ test_dir_exists = TRUE /\ test_files = 1 /\ soffice_found = TRUE
    /\ rounds = 1 /\ concurrent = 1 /\ use_unique_profile = TRUE /\ verbose = TRUE
    /\ esc_pc = "begin"
    /\ start \in 1..MaxStart
    /\ step \in (0 - MaxStep)..MaxStep
    /\ max \in 1..MaxLimit
    /\ current = 0
    /\ levels = <<>>
    /\ cap_reached = FALSE
    /\ terminal = ""

\* begin at current = start
EscBegin ==
    /\ esc_pc = "begin"
    /\ current' = start
    /\ esc_pc' = "run"
    /\ UNCHANGED <<unitVars, runVars, cfgVars, start, step, max, levels, cap_reached, terminal>>

\* run one batch at `current` concurrency and record an EscalationLevel; the batch
\* may contain an OOM_KILLED result and the monitor may latch its cap signal
EscRunLevel ==
    /\ esc_pc = "run"
    /\ Len(levels) < MaxLevels
    /\ \E any_oom \in BOOLEAN, crossed \in BOOLEAN :
          /\ levels' = Append(levels, [concurrency |-> current, oom_killed |-> any_oom])
          /\ cap_reached' = (cap_reached \/ crossed)
    /\ esc_pc' = "decide"
    /\ UNCHANGED <<unitVars, runVars, cfgVars, start, step, max, current, terminal>>

LastLevel == levels[Len(levels)]

\* the OOM_KILLED results of the batch are not looked at
BatchHasOOM_Ignored == FALSE

\* any result in the batch just run is OOM_KILLED
BatchHasOOM == LastLevel.oom_killed

\* the latched signal is not looked at
CapSignalSet_Suppressed == FALSE

\* the Memory Monitor's cap signal is set
CapSignalSet == cap_reached

\* if any result in the batch is OOM_KILLED, stop (terminal: OOM)
EscStopOOM ==
    /\ esc_pc = "decide"
    /\ BatchHasOOM
    /\ terminal' = "OOM"
    /\ esc_pc' = "stopped"
    /\ UNCHANGED <<unitVars, runVars, cfgVars, start, step, max, current, levels, cap_reached>>

\* if the Memory Monitor's cap signal is set, stop (terminal: cap-reached)
EscStopCap ==
    /\ esc_pc = "decide"
    /\ ~BatchHasOOM
    /\ CapSignalSet
    /\ terminal' = "CAP_REACHED"
    /\ esc_pc' = "stopped"
    /\ UNCHANGED <<unitVars, runVars, cfgVars, start, step, max, current, levels, cap_reached>>

\* else if current < max, set current += step and continue
EscContinue ==
    /\ esc_pc = "decide"
    /\ ~BatchHasOOM
    /\ ~CapSignalSet
    /\ current < max
    /\ current' = current + step
    /\ esc_pc' = "run"
    /\ UNCHANGED <<unitVars, runVars, cfgVars, start, step, max, levels, cap_reached, terminal>>

\* else stop (terminal: exhausted)
EscStopExhausted ==
    /\ esc_pc = "decide"
    /\ ~BatchHasOOM
    /\ ~CapSignalSet
    /\ ~(current < max)
    /\ terminal' = "EXHAUSTED"
    /\ esc_pc' = "stopped"
    /\ UNCHANGED <<unitVars, runVars, cfgVars, start, step, max, current, levels, cap_reached>>

NextEsc ==
    \/ EscBegin
    \/ EscRunLevel
    \/ EscStopOOM
    \/ EscStopCap
    \/ EscContinue
    \/ EscStopExhausted

SpecEsc == InitEsc /\ [][NextEsc]_vars

Next ==
    \/ CheckConfig
    \/ StartMonitorAndBuildTasks
    \/ Submit
    \/ \E j \in TaskIds : StartJob(j)
    \/ \E j \in TaskIds : StartJobRaises(j)
    \/ \E j \in TaskIds : LaunchFails(j)
    \/ \E j \in TaskIds : FinishJob(j)
    \/ \E j \in TaskIds : TimeoutJob(j)
    \/ \E j \in TaskIds : Collect(j)
    \/ \E j \in TaskIds : CollectRaised(j)
    \/ Unwind
    \/ StopMonitor
    \/ ComputeSummary
    \/ MainExit
    \/ MonitorSample

Spec == Init /\ [][Next]_vars

\* the same with progress: the main thread, the pool's workers and the monitor
\* thread all keep running, and every converter ends or runs into its timeout
SpecLive == Spec /\ WF_vars(Next)

\* ---- one call of the Process Runner, step by step -----------------------------------
\* convert_file_to_pdf (src/stress_test_runner.py) and convert_document_to_pdf
\* (src/conversion_with_fixes.py), with the clock and the converter's process tree

Impls == {"convert_file_to_pdf", "convert_document_to_pdf"}

batchVars == <<runVars, cfgVars, escVars, monVars, probeVars, orderVars, pairVars, apiVars>>

InitRunner ==
    /\ InitCommon
    /\ InitEscIdle
    /\ InitMonIdle
    /\ test_dir_exists = TRUE /\ test_files = 1 /\ rounds = 1 /\ concurrent = 1
    /\ soffice_found \in BOOLEAN
    /\ use_unique_profile \in BOOLEAN
    /\ verbose = TRUE
    /\ impl \in Impls
    /\ rpc = "call"
    /\ timeout \in 1..MaxTimeout
    /\ now = 0
    /\ start_time = 0
    /\ endtime = 0
    /\ temp_dir = FALSE
    /\ profile_dir = FALSE
    /\ child = "none"
    /\ orphan = "none"
    /\ pdf_file = "none"
    /\ pending = ""
    /\ outcome = ""
    /\ conv_result = NoResult

\* the duration is taken from the epoch instead of from start_time
Duration_FromEpoch(t, t0) == t

\* duration = time.time() - start_time
Duration(t, t0) == t - t0

\* TemporaryDirectory.__exit__ -> shutil.rmtree: TRUE when the directory is gone.
\* A soffice.bin still writing into the directory can make the removal fail.
CleanupOutcomes == IF orphan = "running" THEN {TRUE, FALSE} ELSE {TRUE}

\* time passes while the call is being made, while the input is copied, while the
\* converter runs and while subprocess.run kills and reaps its child
Tick ==
    /\ \/ rpc = "call" /\ now < MaxClockStart
       \/ rpc = "setup" /\ impl = "convert_file_to_pdf" /\ now - start_time < MaxOverhead
       \/ rpc = "run" /\ now < endtime
       \/ rpc = "timed_out" /\ now - start_time < timeout + MaxOverhead
    /\ now' = now + 1
    /\ UNCHANGED <<batchVars, impl, rpc, timeout, start_time, endtime, temp_dir,
                   profile_dir, child, orphan, pdf_file, pending, outcome, conv_result>>

\* lines 266-270: stat of the input (may raise), start_time, the scratch directory
ConvertFile_Enter ==
    /\ impl = "convert_file_to_pdf"
    /\ rpc = "call"
    /\ \/ /\ start_time' = now
          /\ temp_dir' = TRUE
          /\ rpc' = "setup"
          /\ outcome' = outcome
       \/ /\ outcome' = "FileNotFoundError"
          /\ rpc' = "done"
          /\ UNCHANGED <<start_time, temp_dir>>
    /\ UNCHANGED <<batchVars, impl, timeout, now, endtime, profile_dir, child, orphan,
                   pdf_file, pending, conv_result>>

\* lines 271-306: the input is copied and the profile directory made; either can
\* raise, outside the try block
ConvertFile_Setup ==
    /\ impl = "convert_file_to_pdf"
    /\ rpc = "setup"
    /\ \/ /\ profile_dir' = use_unique_profile
          /\ rpc' = "launch"
          /\ pending' = pending
       \/ /\ pending' = "OSError"
          /\ rpc' = "exit_with"
          /\ profile_dir' = profile_dir
    /\ UNCHANGED <<batchVars, impl, timeout, now, start_time, endtime, temp_dir, child,
                   orphan, pdf_file, outcome, conv_result>>

\* lines 308-315 and 364-373: subprocess.run starts the converter; when the
\* executable cannot be started the except Exception branch builds a failed result
ConvertFile_Launch ==
    /\ impl = "convert_file_to_pdf"
    /\ rpc = "launch"
    /\ IF soffice_found
       THEN /\ child' = "running"
            /\ endtime' = now + timeout
            /\ rpc' = "run"
            /\ UNCHANGED <<pending, conv_result>>
       ELSE /\ conv_result' = [status |-> ExceptionResult.status,
                               output_size_kb |-> ExceptionResult.output_size_kb,
                               duration_seconds |-> Duration(now, start_time)]
            /\ pending' = "return"
            /\ rpc' = "exit_with"
            /\ UNCHANGED <<child, endtime>>
    /\ UNCHANGED <<batchVars, impl, timeout, now, start_time, temp_dir, profile_dir,
                   orphan, pdf_file, outcome>>

\* the soffice launcher starts soffice.bin
SpawnOrphan ==
    /\ rpc = "run"
    /\ child = "running"
    /\ orphan = "none"
    /\ orphan' = "running"
    /\ UNCHANGED <<batchVars, impl, rpc, timeout, now, start_time, endtime, temp_dir,
                   profile_dir, child, pdf_file, pending, outcome, conv_result>>

\* the converter writes a PDF, possibly empty, possibly under another name; an
\* input that lies at the path of the expected output is written over
WritePdf ==
    /\ rpc = "run"
    /\ child = "running"
    /\ \/ /\ pdf_file = "none"
          /\ pdf_file' \in Artifacts \ {"none"}
       \/ /\ pdf_file \in {"input", "input_empty"}
          /\ pdf_file' \in {"expected", "expected_empty"}
    /\ UNCHANGED <<batchVars, impl, rpc, timeout, now, start_time, endtime, temp_dir,
                   profile_dir, child, orphan, pending, outcome, conv_result>>

\* subprocess.run returns: the child exited and nothing holds its pipes any more
ChildExits ==
    /\ rpc = "run"
    /\ child = "running"
    /\ child' = "exited"
    /\ orphan' = IF orphan = "running" THEN "exited" ELSE orphan
    /\ rpc' = "classify"
    /\ UNCHANGED <<batchVars, impl, timeout, now, start_time, endtime, temp_dir,
                   profile_dir, pdf_file, pending, outcome, conv_result>>

\* subprocess.run(timeout=timeout): at the deadline the child is killed and
\* TimeoutExpired raised; soffice.bin is not a child of the caller and lives on
TimeoutExpires ==
    /\ rpc = "run"
    /\ child = "running"
    /\ now >= endtime
    /\ child' = "killed"
    /\ pending' = "TimeoutExpired"
    /\ rpc' = IF impl = "convert_file_to_pdf" THEN "timed_out" ELSE "exit_with"
    /\ UNCHANGED <<batchVars, impl, timeout, now, start_time, endtime, temp_dir,
                   profile_dir, orphan, pdf_file, outcome, conv_result>>

\* lines 317-349: the result after subprocess.run returned
ConvertFile_Classify ==
    /\ impl = "convert_file_to_pdf"
    /\ rpc = "classify"
    /\ conv_result' = [status |-> ClassifyOutput(pdf_file).status,
                       output_size_kb |-> ClassifyOutput(pdf_file).output_size_kb,
                       duration_seconds |-> Duration(now, start_time)]
    /\ pending' = "return"
    /\ rpc' = "exit_with"
    /\ UNCHANGED <<batchVars, impl, timeout, now, start_time, endtime, temp_dir,
                   profile_dir, child, orphan, pdf_file, outcome>>

\* lines 351-362: except subprocess.TimeoutExpired: the duration, then
\* kill_soffice_processes(), then the timeout result
ConvertFile_Timeout ==
    /\ impl = "convert_file_to_pdf"
    /\ rpc = "timed_out"
    /\ orphan' = IF orphan = "running" THEN "killed" ELSE orphan
    /\ conv_result' = [status |-> TimeoutResult.status,
                       output_size_kb |-> TimeoutResult.output_size_kb,
                       duration_seconds |-> Duration(now, start_time)]
    /\ pending' = "return"
    /\ rpc' = "exit_with"
    /\ UNCHANGED <<batchVars, impl, timeout, now, start_time, endtime, temp_dir,
                   profile_dir, child, pdf_file, outcome>>

\* line 270: leaving the with block removes the scratch directory; the function
\* returns its result or the exception leaves it
ConvertFile_ExitWith ==
    /\ impl = "convert_file_to_pdf"
    /\ rpc = "exit_with"
    /\ \E removed \in CleanupOutcomes :
          /\ temp_dir' = ~removed
          /\ profile_dir' = (profile_dir /\ ~removed)
          /\ outcome' = IF ~removed THEN "OSError"
                        ELSE IF pending = "return" THEN "returned" ELSE pending
    /\ rpc' = "done"
    /\ UNCHANGED <<batchVars, impl, timeout, now, start_time, endtime, child, orphan,
                   pdf_file, pending, conv_result>>

\* lines 192-203: the executable is looked up (RuntimeError when none is found),
\* then the scratch directory is created
ConvertDocument_Enter ==
    /\ impl = "convert_document_to_pdf"
    /\ rpc = "call"
    /\ IF soffice_found
       THEN /\ temp_dir' = TRUE
            /\ rpc' = "setup"
            /\ outcome' = outcome
       ELSE /\ outcome' = "RuntimeError"
            /\ rpc' = "done"
            /\ temp_dir' = temp_dir
    /\ UNCHANGED <<batchVars, impl, timeout, now, start_time, endtime, profile_dir, child,
                   orphan, pdf_file, pending, conv_result>>

\* the input extensions a caller passes, after line 195 has normalised them
Extensions == {"docx", "pdf"}

\* lines 207-211: the caller's bytes are written to input.{ext}; with the extension
\* "pdf" that file is input.pdf, the path of the expected output
InputFile(ext, no_bytes) ==
    IF ext = "pdf" THEN (IF no_bytes THEN "input_empty" ELSE "input") ELSE "none"

\* lines 204-217: the input bytes are written and the profile directory made
ConvertDocument_Setup ==
    /\ impl = "convert_document_to_pdf"
    /\ rpc = "setup"
    /\ \/ /\ \E ext \in Extensions, no_bytes \in BOOLEAN :
                pdf_file' = InputFile(ext, no_bytes)
          /\ profile_dir' = use_unique_profile
          /\ rpc' = "launch"
          /\ pending' = pending
       \/ /\ pending' = "OSError"
          /\ rpc' = "exit_with"
          /\ UNCHANGED <<profile_dir, pdf_file>>
    /\ UNCHANGED <<batchVars, impl, timeout, now, start_time, endtime, temp_dir, child,
                   orphan, outcome, conv_result>>

\* lines 244-267: subprocess.run starts the converter, or raises when the command
\* (systemd-run, soffice) cannot be started
ConvertDocument_Launch ==
    /\ impl = "convert_document_to_pdf"
    /\ rpc = "launch"
    /\ \/ /\ child' = "running"
          /\ endtime' = now + timeout
          /\ rpc' = "run"
          /\ pending' = pending
       \/ /\ pending' = "OSError"
          /\ rpc' = "exit_with"
          /\ UNCHANGED <<child, endtime>>
    /\ UNCHANGED <<batchVars, impl, timeout, now, start_time, temp_dir, profile_dir,
                   orphan, pdf_file, outcome, conv_result>>

\* lines 276-299: RuntimeError when no file is at the expected path and no *.pdf
\* in the directory, or when the file read has no bytes; otherwise the bytes of
\* that file are returned
ConvertDocument_Classify ==
    /\ impl = "convert_document_to_pdf"
    /\ rpc = "classify"
    /\ pending' = IF pdf_file \in {"expected", "other", "input"} THEN "return"
                  ELSE "RuntimeError"
    /\ rpc' = "exit_with"
    /\ UNCHANGED <<batchVars, impl, timeout, now, start_time, endtime, temp_dir,
                   profile_dir, child, orphan, pdf_file, outcome, conv_result>>

\* line 203 with lines 301 and 308-310: the with block is left first, which removes
\* the scratch directory; then TimeoutExpired goes to its handler, any other
\* exception (also one raised by the removal) is logged and raised again
ConvertDocument_ExitWith ==
    /\ impl = "convert_document_to_pdf"
    /\ rpc = "exit_with"
    /\ \E removed \in CleanupOutcomes :
          /\ temp_dir' = ~removed
          /\ profile_dir' = (profile_dir /\ ~removed)
          /\ pending' = IF removed THEN pending ELSE "OSError"
    /\ rpc' = IF pending' = "TimeoutExpired" THEN "handler" ELSE "done"
    /\ outcome' = IF pending' = "TimeoutExpired" THEN outcome
                  ELSE IF pending' = "return" THEN "returned" ELSE pending'
    /\ UNCHANGED <<batchVars, impl, timeout, now, start_time, endtime, child, orphan,
                   pdf_file, conv_result>>

\* lines 301-306: cleanup_soffice_processes(profile_dir) if a profile directory was
\* made, then RuntimeError
ConvertDocument_TimeoutHandler ==
    /\ impl = "convert_document_to_pdf"
    /\ rpc = "handler"
    /\ orphan' = IF use_unique_profile /\ orphan = "running" THEN "killed" ELSE orphan
    /\ outcome' = "RuntimeError"
    /\ rpc' = "done"
    /\ UNCHANGED <<batchVars, impl, timeout, now, start_time, endtime, temp_dir,
                   profile_dir, child, pdf_file, pending, conv_result>>

NextRunner ==
    \/ Tick
    \/ ConvertFile_Enter
    \/ ConvertFile_Setup
    \/ ConvertFile_Launch
    \/ SpawnOrphan
    \/ WritePdf
    \/ ChildExits
    \/ TimeoutExpires
    \/ ConvertFile_Classify
    \/ ConvertFile_Timeout
    \/ ConvertFile_ExitWith
    \/ ConvertDocument_Enter
    \/ ConvertDocument_Setup
    \/ ConvertDocument_Launch
    \/ ConvertDocument_Classify
    \/ ConvertDocument_ExitWith
    \/ ConvertDocument_TimeoutHandler

SpecRunner == InitRunner /\ [][NextRunner]_vars

\* ---- the MemoryMonitor and its sampling thread, statement by statement ----------------
\* as run_stress_test uses it: start(), reads of the peak while results are
\* collected, stop()

monRest == <<pc, mem_read_error, tasks, submitted, jstate, proc, returncode, scratch,
             profile, dirs, fut, collected, results, other_soffice, summary, exit_code,
             cfgVars, escVars, runnerVars, probeVars, orderVars, pairVars>>

restVars == <<monRest, apiVars>>

InitMon ==
    /\ InitCommon
    /\ InitEscIdle
    /\ InitRunnerIdle
    /\ test_dir_exists = TRUE /\ test_files = 1 /\ soffice_found = TRUE
    /\ rounds = 1 /\ concurrent = 1 /\ use_unique_profile = TRUE /\ verbose = TRUE
    /\ mon_pc = "created"
    /\ loop_pc = "none"
    /\ used_mb = 0
    /\ readings = <<>>
    /\ observed = 0
    /\ stop_returned = {}

\* lines 161-167: start() sets running, resets the peak and the readings and
\* starts the sampling thread
Mon_Start ==
    /\ mon_pc = "created"
    /\ monitor_running' = TRUE
    /\ peak_memory_mb' = 0
    /\ readings' = <<>>
    /\ loop_pc' = "check"
    /\ mon_pc' = "started"
    /\ UNCHANGED <<restVars, used_mb, observed, stop_returned>>

\* run_stress_test line 491: result.memory_peak_mb = monitor.peak_memory_mb, read
\* without the lock
Mon_ReadPeak ==
    /\ mon_pc = "started"
    /\ observed' = peak_memory_mb
    /\ UNCHANGED <<restVars, monitor_running, peak_memory_mb, mon_pc, loop_pc, used_mb,
                   readings, stop_returned>>

\* line 171: stop() clears the running flag
Mon_StopFlag ==
    /\ mon_pc = "started"
    /\ monitor_running' = FALSE
    /\ mon_pc' = "joining"
    /\ UNCHANGED <<restVars, peak_memory_mb, loop_pc, used_mb, readings, observed,
                   stop_returned>>

\* lines 172-173: self._thread.join(timeout=2) returns when the thread has ended
\* or when the two seconds are over, whichever comes first
Mon_StopJoin ==
    /\ mon_pc = "joining"
    /\ mon_pc' = IF loop_pc = "exited" THEN "joined" ELSE "join_timed_out"
    /\ UNCHANGED <<restVars, monitor_running, peak_memory_mb, loop_pc, used_mb, readings,
                   observed, stop_returned>>

\* line 174: return self.peak_memory_mb
Mon_StopReturn ==
    /\ mon_pc \in {"joined", "join_timed_out"}
    /\ stop_returned' = {peak_memory_mb}
    /\ mon_pc' = "stopped"
    /\ UNCHANGED <<restVars, monitor_running, peak_memory_mb, loop_pc, used_mb, readings,
                   observed>>

\* line 178: while self.running
Loop_Check ==
    /\ loop_pc = "check"
    /\ loop_pc' = IF monitor_running THEN "read" ELSE "exited"
    /\ UNCHANGED <<restVars, monitor_running, peak_memory_mb, mon_pc, used_mb, readings,
                   observed, stop_returned>>

\* a read that raises, propagated out of the loop: the thread ends
AfterFailedRead_Propagates == "exited"

\* lines 196-197: except Exception: pass, inside the while; the loop tests
\* self.running next
AfterFailedRead == "check"

\* lines 179-181 and 196-197: psutil.virtual_memory() gives the sample, or raises
\* and the loop goes on without sleeping
Loop_Read ==
    /\ loop_pc = "read"
    /\ \/ /\ Len(readings) < MaxReadings
          /\ used_mb' \in MemValues
          /\ loop_pc' = "update"
       \/ /\ used_mb' = used_mb
          /\ loop_pc' = AfterFailedRead
    /\ UNCHANGED <<restVars, monitor_running, peak_memory_mb, mon_pc, readings, observed,
                   stop_returned>>

\* lines 183-186: under the lock, the peak is raised to the sample
Loop_UpdatePeak ==
    /\ loop_pc = "update"
    /\ peak_memory_mb' = NewPeak(peak_memory_mb, used_mb)
    /\ loop_pc' = "append"
    /\ UNCHANGED <<restVars, monitor_running, mon_pc, used_mb, readings, observed,
                   stop_returned>>

\* lines 187-192: still under the lock, the sample is appended to the readings
Loop_Append ==
    /\ loop_pc = "append"
    /\ readings' = Append(readings, used_mb)
    /\ loop_pc' = "sleep"
    /\ UNCHANGED <<restVars, monitor_running, peak_memory_mb, mon_pc, used_mb, observed,
                   stop_returned>>

\* line 194: time.sleep(self.interval)
Loop_Sleep ==
    /\ loop_pc = "sleep"
    /\ loop_pc' = "check"
    /\ UNCHANGED <<restVars, monitor_running, peak_memory_mb, mon_pc, used_mb, readings,
                   observed, stop_returned>>

NextMon ==
    \/ Mon_Start
    \/ Mon_ReadPeak
    \/ Mon_StopFlag
    \/ Mon_StopJoin
    \/ Mon_StopReturn
    \/ Loop_Check
    \/ Loop_Read
    \/ Loop_UpdatePeak
    \/ Loop_Append
    \/ Loop_Sleep

SpecMon == InitMon /\ [][NextMon]_vars

\* the steps of the sampling thread
LoopStep ==
    \/ Loop_Check
    \/ Loop_Read
    \/ Loop_UpdatePeak
    \/ Loop_Append
    \/ Loop_Sleep

\* The sampling thread is an operating-system thread of a live process: it is
\* scheduled again and again, and its sleep of self.interval seconds returns.
SpecMonLive == SpecMon /\ WF_vars(LoopStep)

\* ---- one memory read --------------------------------------------------------------
\* The two functions of the repository that read the memory, each applied once to
\* what the kernel reports.  Amounts are in the same unit throughout; a percentage
\* is kept in tenths of a percent.

\* round(num / den * 100, 1), in tenths of a percent
RoundTenths(num, den) ==
    LET q == (num * 1000) \div den
        r == (num * 1000) % den
    IN  IF 2 * r > den \/ (2 * r = den /\ q % 2 = 1) THEN q + 1 ELSE q

\* stress_test_runner.py line 180: psutil.virtual_memory() hands back the kernel's
\* total and available, the used amount the library derives, and a percent it
\* computes from the available amount, (total - available) / total * 100
VirtualMemory(m) ==
    [total |-> m.total, available |-> m.available, used |-> m.used,
     percent |-> RoundTenths(m.total - m.available, m.total)]

\* lines 181-193: the reading _monitor_loop appends, with the total of the same call
MonitorReading(mem) ==
    [total |-> mem.total, used |-> mem.used, available |-> mem.available,
     percent |-> mem.percent]

\* test_file_generator.py lines 392-401
GetMemoryInfo(m) ==
    LET total == m.total
        avail == m.available
        used == total - avail
    IN  [total |-> total, used |-> used, available |-> avail,
         percent |-> IF total > 0 THEN RoundTenths(used, total) ELSE 0]

InitProbe ==
    /\ InitRunIdle
    /\ InitEscIdle
    /\ InitRunnerIdle
    /\ InitMonIdle
    /\ InitOrderIdle
    /\ InitPairIdle
    /\ InitApiIdle
    /\ test_dir_exists = TRUE /\ test_files = 1 /\ soffice_found = TRUE
    /\ rounds = 1 /\ concurrent = 1 /\ use_unique_profile = TRUE /\ verbose = TRUE
    /\ vm \in {m \in [total : 1..MaxTotal, available : 0..MaxTotal, used : 0..MaxTotal] :
                  m.available <= m.total /\ m.used <= m.total - m.available}
    /\ cgroup \in [limit : 0..MaxCgroup, usage : 0..(MaxCgroup + 1)]
    /\ probe = ""
    /\ snapshot = NoSnapshot

allButProbe == <<runVars, cfgVars, escVars, runnerVars, monVars, orderVars, pairVars, apiVars>>

\* stress_test_runner.py lines 178-197: one pass of the sampling loop; the read
\* raises and the pass is abandoned (except Exception: pass), or a reading is made
Probe_MonitorLoop ==
    /\ probe = ""
    /\ probe' = "_monitor_loop"
    /\ \/ snapshot' = MonitorReading(VirtualMemory(vm))
       \/ snapshot' = snapshot
    /\ UNCHANGED <<allButProbe, vm, cgroup>>

\* test_file_generator.py lines 382-403: /proc/meminfo is read, or the bare except
\* returns zeros
Probe_GetMemoryInfo ==
    /\ probe = ""
    /\ probe' = "get_memory_info"
    /\ \/ snapshot' = GetMemoryInfo(vm)
       \/ snapshot' = [total |-> 0, used |-> 0, available |-> 0, percent |-> 0]
    /\ UNCHANGED <<allButProbe, vm, cgroup>>

NextProbe ==
    \/ Probe_MonitorLoop
    \/ Probe_GetMemoryInfo

SpecProbe == InitProbe /\ [][NextProbe]_vars

\* ---- the submit and collect loops alone ---------------------------------------------
\* Lines 459-512 of run_stress_test with up to MaxRounds * MaxFiles tasks: only the
\* order of submission, of completion and of collection is kept; what a job does
\* and what its result holds is left out.

InitOrder ==
    /\ InitRunIdle
    /\ InitEscIdle
    /\ InitRunnerIdle
    /\ InitMonIdle
    /\ InitProbeIdle
    /\ InitPairIdle
    /\ InitApiIdle
    /\ test_dir_exists = TRUE /\ soffice_found = TRUE
    /\ test_files \in 1..MaxFiles
    /\ rounds \in 1..MaxRounds
    /\ concurrent \in 1..MaxConcurrent
    /\ use_unique_profile = TRUE /\ verbose = TRUE
    /\ order_pc = "build"
    /\ job = <<>>
    /\ completion = <<>>
    /\ early = {}
    /\ yielded = <<>>

orderFrame == <<pc, mem_read_error, jstate, proc, returncode, scratch, profile, dirs, fut,
                collected, results, peak_memory_mb, monitor_running, other_soffice,
                summary, exit_code, cfgVars, escVars, runnerVars, monVars, probeVars, pairVars, apiVars>>

\* lines 459-463: the task queue
Order_BuildTasks ==
    /\ order_pc = "build"
    /\ tasks' = BuildTasks(rounds, test_files)
    /\ job' = [j \in 1..(rounds * test_files) |-> "new"]
    /\ order_pc' = "submit"
    /\ UNCHANGED <<orderFrame, submitted, completion, early, yielded>>

\* lines 474-483: the next task of the queue is handed to executor.submit
Order_Submit ==
    /\ order_pc = "submit"
    /\ submitted < Len(tasks)
    /\ submitted' = submitted + 1
    /\ job' = [job EXCEPT ![submitted + 1] = "queued"]
    /\ UNCHANGED <<orderFrame, tasks, order_pc, completion, early, yielded>>

\* a worker thread of the pool takes the oldest work item
Order_Start(j) ==
    /\ j \in 1..Len(job)
    /\ job[j] = "queued"
    /\ \A k \in 1..Len(job) : job[k] = "queued" => j <= k
    /\ Cardinality({k \in 1..Len(job) : job[k] = "running"}) < concurrent
    /\ job' = [job EXCEPT ![j] = "running"]
    /\ UNCHANGED <<orderFrame, tasks, submitted, order_pc, completion, early, yielded>>

\* convert_file_to_pdf returns or raises: the future is finished
Order_Finish(j) ==
    /\ j \in 1..Len(job)
    /\ job[j] = "running"
    /\ job' = [job EXCEPT ![j] = "done"]
    /\ completion' = Append(completion, j)
    /\ UNCHANGED <<orderFrame, tasks, submitted, order_pc, early, yielded>>

\* line 485: as_completed is entered once every task is submitted; it first
\* collects the futures that are finished by then into a set
Order_EnterAsCompleted ==
    /\ order_pc = "submit"
    /\ submitted = Len(tasks)
    /\ early' = {j \in 1..Len(job) : job[j] = "done"}
    /\ order_pc' = "collect"
    /\ UNCHANGED <<orderFrame, tasks, submitted, job, completion, yielded>>

Yielded == {yielded[i] : i \in 1..Len(yielded)}

\* the finished futures not yet yielded, oldest first
RECURSIVE Waiting(_)
Waiting(seq) ==
    IF seq = <<>> THEN <<>>
    ELSE IF Head(seq) \in Yielded THEN Waiting(Tail(seq))
    ELSE <<Head(seq)>> \o Waiting(Tail(seq))

\* lines 485-512: as_completed yields the futures of that set in the order the
\* set iterates, then the others in the order they finish; the loop body appends
\* one result for the future yielded
Order_Yield(j) ==
    /\ order_pc = "collect"
    /\ j \in 1..Len(job)
    /\ j \notin Yielded
    /\ IF early \ Yielded # {} THEN j \in early
       ELSE Waiting(completion) # <<>> /\ j = Head(Waiting(completion))
    /\ yielded' = Append(yielded, j)
    /\ order_pc' = IF Len(yielded') = Len(tasks) THEN "done" ELSE "collect"
    /\ UNCHANGED <<orderFrame, tasks, submitted, job, completion, early>>

NextOrder ==
    \/ Order_BuildTasks
    \/ Order_Submit
    \/ \E j \in 1..(MaxRounds * MaxFiles) : Order_Start(j)
    \/ \E j \in 1..(MaxRounds * MaxFiles) : Order_Finish(j)
    \/ Order_EnterAsCompleted
    \/ \E j \in 1..(MaxRounds * MaxFiles) : Order_Yield(j)

SpecOrder == InitOrder /\ [][NextOrder]_vars

\* ---- two runs side by side ------------------------------------------------------------
\* Two runs of run_stress_test over the same two files with concurrent = 2, one
\* after the other.  What a job's converter does when left alone is fixed per run
\* and job beforehand: it hangs until the timeout, or it exits leaving one of
\* Artifacts.  The runs are then compared job by job.

Behaviours == Artifacts \cup {"hangs"}

InitPair ==
    /\ InitRunIdle
    /\ InitEscIdle
    /\ InitRunnerIdle
    /\ InitMonIdle
    /\ InitProbeIdle
    /\ InitOrderIdle
    /\ InitApiIdle
    /\ test_dir_exists = TRUE /\ test_files = 2 /\ soffice_found = TRUE
    /\ rounds = 1 /\ concurrent = 2 /\ use_unique_profile = TRUE /\ verbose = TRUE
    /\ behaviour \in [PairRuns -> [PairJobs -> Behaviours]]
    /\ pair_turn = 1
    /\ pair_proc = [r \in PairRuns |-> [j \in PairJobs |-> "none"]]
    /\ pair_status = [r \in PairRuns |-> [j \in PairJobs |-> ""]]

allButPair == <<runVars, cfgVars, escVars, runnerVars, monVars, probeVars, orderVars, apiVars>>

\* lines 309-315: subprocess.run starts the job's converter
Pair_Start(r, j) ==
    /\ pair_turn = r
    /\ pair_proc[r][j] = "none"
    /\ pair_status[r][j] = ""
    /\ pair_proc' = [pair_proc EXCEPT ![r][j] = "running"]
    /\ UNCHANGED <<allButPair, behaviour, pair_turn, pair_status>>

\* lines 317-349: the converter exits by itself and the output is classified
Pair_Finish(r, j) ==
    /\ pair_turn = r
    /\ pair_proc[r][j] = "running"
    /\ behaviour[r][j] # "hangs"
    /\ pair_proc' = [pair_proc EXCEPT ![r][j] = "ended"]
    /\ pair_status' = [pair_status EXCEPT ![r][j] = ClassifyOutput(behaviour[r][j]).status]
    /\ UNCHANGED <<allButPair, behaviour, pair_turn>>

\* lines 351-362, 376-386: the converter hangs, subprocess.run kills it at the
\* timeout and kill_soffice_processes() kills every soffice process there is
Pair_Timeout(r, j) ==
    /\ pair_turn = r
    /\ pair_proc[r][j] = "running"
    /\ behaviour[r][j] = "hangs"
    /\ pair_proc' = [pair_proc EXCEPT ![r] =
                        [k \in PairJobs |->
                            IF k = j THEN "ended"
                            ELSE IF pair_proc[r][k] = "running" THEN "killed"
                            ELSE pair_proc[r][k]]]
    /\ pair_status' = [pair_status EXCEPT ![r][j] = TimeoutResult.status]
    /\ UNCHANGED <<allButPair, behaviour, pair_turn>>

\* lines 309-349: subprocess.run returns for a converter that was killed from
\* outside; its output is what it had written by then, nothing or all of it
Pair_ReturnKilled(r, j) ==
    /\ pair_turn = r
    /\ pair_proc[r][j] = "killed"
    /\ \E a \in {"none"} \cup ({behaviour[r][j]} \cap Artifacts) :
          pair_status' = [pair_status EXCEPT ![r][j] = ClassifyOutput(a).status]
    /\ pair_proc' = [pair_proc EXCEPT ![r][j] = "ended"]
    /\ UNCHANGED <<allButPair, behaviour, pair_turn>>

\* the first run is over, the second begins
Pair_SecondRun ==
    /\ pair_turn = 1
    /\ \A j \in PairJobs : pair_status[1][j] # ""
    /\ pair_turn' = 2
    /\ UNCHANGED <<allButPair, behaviour, pair_proc, pair_status>>

NextPair ==
    \/ \E r \in PairRuns, j \in PairJobs : Pair_Start(r, j)
    \/ \E r \in PairRuns, j \in PairJobs : Pair_Finish(r, j)
    \/ \E r \in PairRuns, j \in PairJobs : Pair_Timeout(r, j)
    \/ \E r \in PairRuns, j \in PairJobs : Pair_ReturnKilled(r, j)
    \/ Pair_SecondRun

SpecPair == InitPair /\ [][NextPair]_vars

\* ---- a MemoryMonitor used freely ------------------------------------------------------
\* The class by itself, statement by statement: one thread calls start() and
\* stop() in any order (start() at most MaxStarts times), every start() creates a
\* sampling thread, and the sampling threads share the peak, the readings and
\* the lock.

InitMonApi ==
    /\ InitRunIdle
    /\ InitEscIdle
    /\ InitRunnerIdle
    /\ InitProbeIdle
    /\ InitOrderIdle
    /\ InitPairIdle
    /\ test_dir_exists = TRUE /\ test_files = 1 /\ soffice_found = TRUE
    /\ rounds = 1 /\ concurrent = 1 /\ use_unique_profile = TRUE /\ verbose = TRUE
    /\ mon_pc = "idle"
    /\ loop_pc = "none"
    /\ used_mb = 0
    /\ readings = <<>>
    /\ observed = 0
    /\ stop_returned = {}
    /\ threads = <<>>
    /\ lock = 0

apiFrame == <<monRest, loop_pc, used_mb, observed>>

\* the sampling threads that have not ended
Alive == {t \in 1..Len(threads) : threads[t].pc # "exited"}

\* line 163: self.running = True
Api_StartRunning ==
    /\ mon_pc = "idle"
    /\ Len(threads) < MaxStarts
    /\ monitor_running' = TRUE
    /\ mon_pc' = "start_164"
    /\ UNCHANGED <<apiFrame, peak_memory_mb, readings, stop_returned, threads, lock>>

\* line 164: self.peak_memory_mb = 0, without the lock
Api_StartResetPeak ==
    /\ mon_pc = "start_164"
    /\ peak_memory_mb' = 0
    /\ mon_pc' = "start_165"
    /\ UNCHANGED <<apiFrame, monitor_running, readings, stop_returned, threads, lock>>

\* line 165: self.readings = [], without the lock
Api_StartResetReadings ==
    /\ mon_pc = "start_165"
    /\ readings' = <<>>
    /\ mon_pc' = "start_166"
    /\ UNCHANGED <<apiFrame, monitor_running, peak_memory_mb, stop_returned, threads, lock>>

\* lines 166-167: a new sampling thread is created and started; self._thread now
\* refers to it
Api_StartThread ==
    /\ mon_pc = "start_166"
    /\ threads' = Append(threads, [pc |-> "check", used_mb |-> 0])
    /\ mon_pc' = "idle"
    /\ UNCHANGED <<apiFrame, monitor_running, peak_memory_mb, readings, stop_returned, lock>>

\* line 171: self.running = False
Api_StopFlag ==
    /\ mon_pc = "idle"
    /\ monitor_running' = FALSE
    /\ mon_pc' = "stop_172"
    /\ UNCHANGED <<apiFrame, peak_memory_mb, readings, stop_returned, threads, lock>>

\* lines 172-173: if a thread was ever started, the last one is joined for at most
\* two seconds; the join returns whether or not that thread has ended
Api_StopJoin ==
    /\ mon_pc = "stop_172"
    /\ mon_pc' = "stop_174"
    /\ UNCHANGED <<apiFrame, monitor_running, peak_memory_mb, readings, stop_returned,
                   threads, lock>>

\* line 174: return self.peak_memory_mb
Api_StopReturn ==
    /\ mon_pc = "stop_174"
    /\ stop_returned' = {peak_memory_mb}
    /\ mon_pc' = "idle"
    /\ UNCHANGED <<apiFrame, monitor_running, peak_memory_mb, readings, threads, lock>>

\* line 178: while self.running
Thread_Check(t) ==
    /\ t \in 1..Len(threads)
    /\ threads[t].pc = "check"
    /\ threads' = [threads EXCEPT ![t].pc = IF monitor_running THEN "read" ELSE "exited"]
    /\ UNCHANGED <<apiFrame, monitor_running, peak_memory_mb, readings, stop_returned,
                   mon_pc, lock>>

\* lines 179-181 and 196-197: psutil.virtual_memory() gives the sample, or raises
\* and the loop goes on
Thread_Read(t) ==
    /\ t \in 1..Len(threads)
    /\ threads[t].pc = "read"
    /\ \/ /\ Len(readings) < MaxReadings
          /\ \E used \in MemValues :
                threads' = [threads EXCEPT ![t] = [pc |-> "acquire", used_mb |-> used]]
       \/ threads' = [threads EXCEPT ![t].pc = AfterFailedRead]
    /\ UNCHANGED <<apiFrame, monitor_running, peak_memory_mb, readings, stop_returned,
                   mon_pc, lock>>

\* line 183: with self._lock
Thread_Acquire(t) ==
    /\ t \in 1..Len(threads)
    /\ threads[t].pc = "acquire"
    /\ lock = 0
    /\ lock' = t
    /\ threads' = [threads EXCEPT ![t].pc = "update"]
    /\ UNCHANGED <<apiFrame, monitor_running, peak_memory_mb, readings, stop_returned, mon_pc>>

\* lines 184-186
Thread_UpdatePeak(t) ==
    /\ t \in 1..Len(threads)
    /\ threads[t].pc = "update"
    /\ peak_memory_mb' = NewPeak(peak_memory_mb, threads[t].used_mb)
    /\ threads' = [threads EXCEPT ![t].pc = "append"]
    /\ UNCHANGED <<apiFrame, monitor_running, readings, stop_returned, mon_pc, lock>>

\* lines 188-193: the reading is appended and the lock released
Thread_Append(t) ==
    /\ t \in 1..Len(threads)
    /\ threads[t].pc = "append"
    /\ readings' = Append(readings, threads[t].used_mb)
    /\ lock' = 0
    /\ threads' = [threads EXCEPT ![t].pc = "sleep"]
    /\ UNCHANGED <<apiFrame, monitor_running, peak_memory_mb, stop_returned, mon_pc>>

\* line 195: time.sleep(self.interval)
Thread_Sleep(t) ==
    /\ t \in 1..Len(threads)
    /\ threads[t].pc = "sleep"
    /\ threads' = [threads EXCEPT ![t].pc = "check"]
    /\ UNCHANGED <<apiFrame, monitor_running, peak_memory_mb, readings, stop_returned,
                   mon_pc, lock>>

NextMonApi ==
    \/ Api_StartRunning
    \/ Api_StartResetPeak
    \/ Api_StartResetReadings
    \/ Api_StartThread
    \/ Api_StopFlag
    \/ Api_StopJoin
    \/ Api_StopReturn
    \/ \E t \in 1..MaxStarts : Thread_Check(t)
    \/ \E t \in 1..MaxStarts : Thread_Read(t)
    \/ \E t \in 1..MaxStarts : Thread_Acquire(t)
    \/ \E t \in 1..MaxStarts : Thread_UpdatePeak(t)
    \/ \E t \in 1..MaxStarts : Thread_Append(t)
    \/ \E t \in 1..MaxStarts : Thread_Sleep(t)

SpecMonApi == InitMonApi /\ [][NextMonApi]_vars

\* ---- properties ---------------------------------------------------------------------

ConverterRunning == {j \in TaskIds : proc[j] = "running"}

ResultsOfFile(f) == {i \in 1..Len(results) : results[i].filename = f}

\* C1: every recorded ConversionResult has status "success" if and only if its
\* recorded output size is greater than 0.
C1_SuccessIffOutput ==
    \A i \in 1..Len(results) :
        (results[i].status = "success") <=> (results[i].output_size_kb > 0)

\* C2: the timeout handling of one job kills no converter process of another job
\* and no soffice process of unrelated work.
C2_TimeoutKillsOnlyOwnProcesses ==
    [][\A j \in TaskIds :
          (fut[j].kind = "none" /\ fut'[j].status = "timeout")
             => /\ \A k \in TaskIds \ {j} : proc'[k] = proc[k]
                /\ other_soffice' = other_soffice]_vars

\* C3: when run_stress_test has returned, the per-status counts of the summary add
\* up to the number of tasks (files x rounds), counting the statuses the summary
\* has no counter for ("error", "skipped") over the result list.
C3_CountsPartitionTotal ==
    pc = "returned" =>
        /\ summary.successful + summary.failed + summary.timeouts + summary.oom_killed
             + CountStatus("error") + CountStatus("skipped") = test_files * rounds
        /\ summary.total_conversions = test_files * rounds

\* C4: once a memory sample has reached the ceiling (the monitor's peak is at the
\* ceiling, here the largest reading), no converter is launched for a task that
\* has not started yet.
C4_NoStartAfterCap ==
    [][(peak_memory_mb >= MaxMem) =>
          \A j \in TaskIds : proc[j] = "none" => proc'[j] = "none"]_vars

\* C5: a job whose converter exited with code 137 has status "oom" in the result
\* its future holds.
C5_Exit137IsOomKilled ==
    \A j \in TaskIds : 137 \in returncode[j] => fut[j].status = "oom"

\* C6: the process never exits with code 0 when a result of the run is failed,
\* timed out or OOM-killed.
C6_NonzeroExitOnFailure ==
    exit_code = {0} =>
        \A i \in 1..Len(results) : results[i].status \notin {"failed", "timeout", "oom"}

\* C7: when run_stress_test has returned, the result list holds exactly one entry
\* per task: files x rounds entries, `rounds` of them for every file.
C7_OneResultPerTask ==
    pc = "returned" =>
        /\ Len(results) = test_files * rounds
        /\ \A f \in 1..test_files : Cardinality(ResultsOfFile(f)) = rounds
        /\ collected = Ids

\* C8: at every moment at most `concurrent` jobs are being run by workers, hence at
\* most `concurrent` converter processes run.
C8_AtMostConcurrentRunning ==
    /\ Cardinality(Running) <= concurrent
    /\ Cardinality(ConverterRunning) <= concurrent

C8_Witness ==
    /\ Cardinality(ConverterRunning) = concurrent
    /\ \E j \in Ids : jstate[j] = "queued"

\* C9: two jobs that run at the same time never have the same scratch directory
\* nor, with profile isolation enabled, the same profile directory.
C9_ExclusiveDirectories ==
    \A j \in Running : \A k \in Running \ {j} :
        /\ scratch[j] \in dirs
        /\ scratch[j] # scratch[k]
        /\ use_unique_profile => (profile[j] # <<>> /\ profile[j] # profile[k])

C9_Witness ==
    /\ use_unique_profile
    /\ \E j \in Running : \E k \in Running \ {j} :
          /\ tasks[j].file_path = tasks[k].file_path
          /\ profile[j][2] = profile[k][2]

\* C10: the Escalation Controller never runs a batch at a concurrency greater
\* than max.
C10_NeverExceedsMax ==
    \A i \in 1..Len(levels) : levels[i].concurrency <= max

\* C11: the Escalation Controller stops at the first level whose batch contains an
\* OOM_KILLED result: only the last recorded level can contain one, the controller
\* then stops with terminal reason OOM, and when the first batch of a run started
\* at 2 contains one, exactly one level (concurrency 2) is recorded.
C11_StopsAtFirstOOM ==
    /\ \A i \in 1..(Len(levels) - 1) : ~levels[i].oom_killed
    /\ (Len(levels) > 0 /\ esc_pc = "stopped" /\ LastLevel.oom_killed) => terminal = "OOM"
    /\ (Len(levels) > 0 /\ esc_pc \in {"run", "stopped"} /\ start = 2 /\ levels[1].oom_killed)
          => (esc_pc = "stopped" /\ Len(levels) = 1 /\ levels[1].concurrency = 2)

C11_Witness ==
    /\ esc_pc = "stopped"
    /\ terminal = "OOM"
    /\ start = 2
    /\ cap_reached
    /\ levels = <<[concurrency |-> 2, oom_killed |-> TRUE]>>

\* C12: a single job's failure, timeout or exception never aborts the batch: once
\* a task has been submitted run_stress_test does not raise, and when it returns every
\* task of the queue has its typed result in the report.
C12_BatchNeverAborts ==
    /\ submitted > 0 => pc \notin {"unwind", "raised"}
    /\ pc = "returned" => \A j \in Ids : j \in collected /\ ResultsOfFile(tasks[j].file_path) # {}

\* C13: a job whose converter does not finish within the timeout is recorded by
\* convert_file_to_pdf with status "timeout" and output size 0, whatever PDF lies in
\* the scratch directory, and its recorded duration is the configured timeout plus
\* at most the setup and kill time of that job (the tolerance).
C13_TimeoutRecorded ==
    (impl = "convert_file_to_pdf" /\ child = "killed" /\ rpc = "done")
        => /\ outcome = "returned"
           /\ conv_result.status = "timeout"
           /\ conv_result.output_size_kb = 0
           /\ conv_result.duration_seconds >= timeout
           /\ conv_result.duration_seconds <= timeout + MaxOverhead

C13_Witness ==
    /\ impl = "convert_file_to_pdf"
    /\ rpc = "done"
    /\ child = "killed"
    /\ pdf_file = "expected"
    /\ start_time > 0
    /\ conv_result.status = "timeout"
    /\ conv_result.duration_seconds = timeout + MaxOverhead

\* C14: once the Process Runner has returned or raised, the scratch directory it
\* created no longer exists.
C14_ScratchRemoved ==
    rpc = "done" => ~temp_dir

\* C15: when run_stress_test has returned from a batch of at least one task in
\* which every converter invocation succeeded, the summary shows
\* total = files x rounds, successful = total, failed = 0 and success_rate = 100.0
\* (10000 hundredths), whatever the completion order was.
C15_AllSucceedReport ==
    (/\ pc = "returned"
     /\ NumTasks > 0
     /\ \A j \in Ids : fut[j].kind = "result" /\ fut[j].status = "success")
        => /\ summary.total_conversions = test_files * rounds
           /\ summary.successful = summary.total_conversions
           /\ summary.failed = 0
           /\ summary.success_rate = 10000

\* C16: the success rate of a computed summary lies within [0, 100] (0..10000
\* hundredths) and is exactly 0 when run_stress_test has returned with an empty
\* result list.
C16_SuccessRateInRange ==
    /\ summary.success_rate \in 0..10000
    /\ (pc = "returned" /\ Len(results) = 0) => summary.success_rate = 0

C16_Witness ==
    /\ pc = "returned"
    /\ rounds = 0
    /\ results = <<>>
    /\ summary.success_rate = 0

\* C17: no memory read raises into its caller, neither in the sampling loop nor in
\* a direct read made while a job result is reported.
C17_MemoryReadNeverRaises ==
    mem_read_error = ""

\* C18: while the monitor is running its peak never decreases, whatever the thread
\* using the monitor does in between, and the step that records a sample leaves
\* the peak at the larger of the previous peak and the sample's used amount.
C18_PeakNeverDecreases ==
    [][/\ (monitor_running /\ monitor_running') => peak_memory_mb' >= peak_memory_mb
       /\ (loop_pc = "update" /\ loop_pc' = "append")
             => /\ peak_memory_mb' >= peak_memory_mb
                /\ peak_memory_mb' >= used_mb
                /\ peak_memory_mb' \in {peak_memory_mb, used_mb}]_vars

C18_Witness ==
    /\ monitor_running
    /\ Len(readings) >= 2
    /\ readings[Len(readings)] < peak_memory_mb
    /\ observed = peak_memory_mb

\* C19: once stop() has returned, the sampling loop is not taking a sample and the
\* monitor's peak is the value stop() returned.
C19_StopHaltsSampling ==
    stop_returned # {}
        => /\ stop_returned = {peak_memory_mb}
           /\ loop_pc \notin {"update", "append"}

\* C21: once a sample of the run has reached the ceiling (here the largest
\* reading), the monitor's cap signal is set, and it is still set when the samples
\* that follow are below the ceiling.
C21_CapSignalLatched ==
    (\E i \in 1..Len(readings) : readings[i] >= MaxMem) => cap_reached

\* C22: a memory read made while the container's cgroup usage is above its cgroup
\* limit (2100 MiB against 2000 MiB in the scenario) reports a percent above 100,
\* and with the ceiling at that limit the cap signal is set by this first sample.
C22_OverLimitSetsCap ==
    (probe # "" /\ cgroup.limit > 0 /\ cgroup.usage > cgroup.limit)
        => (snapshot.percent > 1000 /\ cap_reached)

\* C23: a reading with a known total has 0 <= used <= total and a percent equal to
\* used / total * 100 rounded to one decimal.
C23_SnapshotConsistent ==
    (probe # "" /\ snapshot.total > 0)
        => /\ 0 <= snapshot.used
           /\ snapshot.used <= snapshot.total
           /\ snapshot.percent = RoundTenths(snapshot.used, snapshot.total)

\* C24: a job that ended on an exception without a finished converter run (the
\* input could not be read or copied, the executable could not be launched) has
\* status "error" and output size 0, in the result its future holds and in the
\* result recorded for a future that raised.
C24_ExceptionIsError ==
    /\ \A j \in Ids :
          (jstate[j] = "done" /\ proc[j] = "none" /\ fut[j].kind = "result")
              => (fut[j].status = "error" /\ fut[j].output_size_kb = 0)
    /\ \A j \in collected :
          (fut[j].kind = "exception" /\ pc # "unwind")
              => \E i \in ResultsOfFile(tasks[j].file_path) :
                    results[i].status = "error" /\ results[i].output_size_kb = 0

\* C25: when the test directory is missing, holds no input file, or no converter
\* executable is found, the run raises at once: no task is ever built or
\* submitted, no converter process launched, and the monitor is never started.
C25_ConfigErrorBeforeWork ==
    (~test_dir_exists \/ test_files = 0 \/ ~soffice_found)
        => /\ pc \in {"start", "raised", "exited"}
           /\ ~monitor_running
           /\ tasks = <<>> /\ submitted = 0
           /\ \A j \in TaskIds : proc[j] = "none" /\ jstate[j] = "new"

C25_Witness ==
    /\ pc = "raised"
    /\ test_dir_exists /\ test_files > 0 /\ ~soffice_found
    /\ ~monitor_running

\* C26: once the batch has its task list, run_stress_test eventually returns, with
\* one result per task and the monitor stopped.
C26_BatchEventuallyReturns ==
    (pc = "submit")
        ~> (pc = "returned" /\ Len(results) = NumTasks /\ ~monitor_running)

\* C27: every recorded status is one of success, failed, timeout, oom, error,
\* skipped, and each of them is what the harness records for the behaviour it
\* stands for: oom for a converter that exited with code 137, error for a job that
\* ended on an exception before any converter ran, skipped for a task whose turn
\* came after a sample had reached the ceiling.
C27_ClosedStatusSet ==
    [][/\ \A i \in 1..Len(results') :
             results'[i].status \in {"success", "failed", "timeout", "oom", "error", "skipped"}
       /\ \A j \in TaskIds :
             (fut[j].kind = "none" /\ 137 \in returncode'[j]) => fut'[j].status = "oom"
       /\ \A j \in TaskIds :
             (fut[j].kind = "none" /\ fut'[j].kind = "result" /\ proc'[j] = "none")
                 => fut'[j].status \in {"error", "skipped"}
       /\ \A j \in TaskIds :
             (peak_memory_mb >= MaxMem /\ jstate[j] = "queued" /\ jstate'[j] # "queued")
                 => fut'[j].status = "skipped"]_vars

\* C28: the task queue is round-major (every file of a round before any file of
\* the next round), the tasks are submitted in the order of the queue, and the
\* results are appended in the order in which the jobs finished.
C28_SubmitRoundMajorCollectByCompletion ==
    /\ \A i, k \in 1..Len(tasks) :
          i < k => \/ tasks[i].round_num < tasks[k].round_num
                   \/ /\ tasks[i].round_num = tasks[k].round_num
                      /\ tasks[i].file_path < tasks[k].file_path
    /\ \A j \in 1..Len(job) : (job[j] = "new") <=> (j > submitted)
    /\ \A i \in 1..Len(yielded) : yielded[i] = completion[i]

\* C29: in two runs in which a job's own converter behaves the same, the job's
\* recorded status is the same, whatever the other job's converter does (ending
\* by itself in one run and running into its timeout in the other).
C29_StatusDependsOnOwnJobOnly ==
    \A j \in PairJobs :
        (/\ pair_turn = 2
         /\ behaviour[1][j] = behaviour[2][j]
         /\ pair_status[1][j] # ""
         /\ pair_status[2][j] # "")
            => pair_status[1][j] = pair_status[2][j]

\* C30 (as stated): the cap signal is never cleared, and whenever it is set after
\* a level's batch the Escalation Controller stops with terminal reason
\* cap-reached, recording no further level.
C30_CapStopsEscalation ==
    [][/\ cap_reached => cap_reached'
       /\ (esc_pc = "decide" /\ cap_reached)
             => (esc_pc' = "stopped" /\ terminal' = "CAP_REACHED" /\ levels' = levels)
       /\ esc_pc = "stopped" => (esc_pc' = "stopped" /\ levels' = levels)]_vars

\* C30 (amended): the cap signal is never cleared, and whenever it is set after a
\* level's batch the Escalation Controller stops and records no further level;
\* the terminal reason is cap-reached unless that batch contains an OOM_KILLED
\* result, in which case it is OOM.
C30_CapStopsEscalationUnlessOOM ==
    [][/\ cap_reached => cap_reached'
       /\ (esc_pc = "decide" /\ cap_reached)
             => /\ esc_pc' = "stopped"
                /\ terminal' = IF LastLevel.oom_killed THEN "OOM" ELSE "CAP_REACHED"
                /\ levels' = levels
       /\ esc_pc = "stopped" => (esc_pc' = "stopped" /\ levels' = levels)]_vars

C30_Witness ==
    /\ esc_pc = "stopped"
    /\ terminal = "CAP_REACHED"
    /\ cap_reached
    /\ current < max
    /\ Len(levels) = 2

\* C31: when the container's cgroup gives a limit, the reading returned is the
\* cgroup's (its limit as total, its usage as used); the host-wide figures are
\* returned only when no such source exists.
C31_CgroupBeforeHostWide ==
    (probe # "" /\ snapshot.total > 0 /\ cgroup.limit > 0)
        => (snapshot.total = cgroup.limit /\ snapshot.used = cgroup.usage)

\* C32: the escalation ends with exactly one terminal reason after finitely many
\* levels: a reason is set exactly when the controller has stopped, every level
\* after the first runs at a higher concurrency than the one before it, and no
\* more levels are run than there are concurrencies from start up to max.
C32_EscalationTerminates ==
    /\ (esc_pc = "stopped") <=> (terminal \in {"OOM", "CAP_REACHED", "EXHAUSTED"})
    /\ (esc_pc # "stopped") <=> (terminal = "")
    /\ \A i, k \in 1..Len(levels) : i < k => levels[i].concurrency < levels[k].concurrency
    /\ Len(levels) <= (IF start >= max THEN 1 ELSE max - start + 1)

\* C33: the memory_peak_mb of the results never decreases along the result list,
\* and once monitor.stop() has returned no result holds more than the peak it
\* returned.
C33_ResultPeaksNonDecreasing ==
    /\ \A i, k \in 1..Len(results) :
          i < k => results[i].memory_peak_mb <= results[k].memory_peak_mb
    /\ pc \in {"summarize", "returned"}
          => \A i \in 1..Len(results) : results[i].memory_peak_mb <= peak_memory_mb

RECURSIVE MaxOf(_)
MaxOf(seq) ==
    IF seq = <<>> THEN 0
    ELSE LET m == MaxOf(Tail(seq)) IN IF Head(seq) > m THEN Head(seq) ELSE m

\* C34: whenever no thread holds the monitor's lock, peak_memory_mb is the largest
\* used_mb among the readings, and 0 when there are none.
C34_PeakIsMaxOfReadings ==
    lock = 0 => peak_memory_mb = MaxOf(readings)

\* C35: a MemoryMonitor never has more than one sampling thread alive.
C35_AtMostOneSamplingLoop ==
    Cardinality(Alive) <= 1

\* C36: once stop() has cleared the running flag, a sampling loop that is still
\* alive reaches its end, whatever its memory reads do; and the loop ends only
\* when the running flag is cleared, never because a read raised.
C36_LoopExitsAfterStopOnly ==
    /\ (~monitor_running /\ loop_pc \notin {"none", "exited"}) ~> (loop_pc = "exited")
    /\ [][(loop_pc # "exited" /\ loop_pc' = "exited") => ~monitor_running]_vars

\* stop() has returned and the loop has ended without one successful read
C36_Witness ==
    /\ loop_pc = "exited"
    /\ ~monitor_running
    /\ readings = <<>>
    /\ mon_pc = "stopped"

\* C37: a finished call of convert_document_to_pdf has returned the bytes of a
\* non-empty PDF that the converter wrote, or has raised RuntimeError; a call whose
\* converter timed out has raised RuntimeError.
C37_PdfBytesOrRuntimeError ==
    (impl = "convert_document_to_pdf" /\ rpc = "done")
        => /\ \/ outcome = "returned" /\ pdf_file \in {"expected", "other"}
              \/ outcome = "RuntimeError"
           /\ child = "killed" => outcome = "RuntimeError"

\* C38: after a timeout, the scratch directory of the call is removed only when
\* the converter process the timed-out child left behind has been dealt with: no
\* soffice.bin of the job is running while the directory is already gone.
C38_KillBeforeRemoval ==
    (child = "killed" /\ ~temp_dir) => orphan # "running"

====
